---- MODULE Spec2Model ----
(***************************************************************************)
(* PrivateOCR: the recognition controller of the popup (popup-logic.js),   *)
(* the handoff slot it reads in region mode, and the recognition engine    *)
(* (Tesseract worker) it drives, reached only through asynchronous calls;  *)
(* the region selector injected into the page (content script); and the    *)
(* capture relay (background.js) with the region-mode windows it opens.    *)
(*                                                                         *)
(* Five specifications share the variables: Spec (one controller),         *)
(* SelectorSpec (the selector of one page), RelaySpec (the relay, the      *)
(* slot and the windows reading it), TriggerSpec (the region button of     *)
(* the popup beside full captures) and UtilsSpec (scaleImageIfNeeded and   *)
(* countWords applied to the inputs drawn in its initial states, and one   *)
(* full capture that awaits the scaling).                                  *)
(*                                                                         *)
(* One action is one run-to-completion step of the JavaScript event loop:  *)
(* a handler (or the continuation of an await) runs from the event that    *)
(* resumes it up to its next await of an external operation.  An await of  *)
(* a promise that is already settled resumes in the same microtask         *)
(* checkpoint, so it is part of the same action.                           *)
(***************************************************************************)
EXTENDS Integers, Sequences, FiniteSets, TLC

\* Bounds of the model.
MaxRequests == 2
MaxCancels == 1
MaxTicks == 1

\* Program constants.
FreshnessMs == 60000
Null == 0

ReqIds == 1..MaxRequests
WorkerIds == 1..MaxRequests

VARIABLES
    ctl,            \* closure state of init() and the DOM elements it owns
    worker,         \* per createWorker call: the getWorker IIFE and its engine
    req,            \* per trigger: the handler invocation and where it is suspended
    cancelPending,  \* cancelOcr invocations suspended at await terminate()
    nCancel,        \* cancelOcr invocations so far
    regionPc,       \* position of checkRegionMode
    pendingRegionOcr, \* the handoff checkRegionMode has read
    store,          \* chrome.storage.local, key pendingRegionOcr
    now,            \* Date.now()
    selectorActive, \* window.__ocrRegionSelectorActive of the page
    injections,     \* injections of the content script into the page so far
    sel,            \* per injection: the closure of the content script's IIFE
    outbox,         \* the last message the page sent with runtime.sendMessage
    relay,          \* per regionSelected message: the handleRegionSelection call
    popup,          \* per window the relay opened: its checkRegionMode
    lastWrite,      \* the relay call whose storage.local.set completed last
    regionClick,    \* per click on "Select region": the handleRegionClick call
    windowClosed,   \* window.close() was called on the popup
    img,            \* scaleImageIfNeeded: the decoded image and its canvas
    scaleResult,    \* scaleImageIfNeeded: what the promise resolved with
    countArg,       \* countWords: its argument
    countResult     \* countWords: its return value

selectorVars == <<selectorActive, injections, sel, outbox>>

relayVars == <<relay, popup, lastWrite>>

controllerVars == <<ctl, worker, req, cancelPending, nCancel, regionPc,
                    pendingRegionOcr>>

triggerVars == <<regionClick, windowClosed>>

utilVars == <<img, scaleResult, countArg, countResult>>

vars == <<ctl, worker, req, cancelPending, nCancel, regionPc, pendingRegionOcr,
          store, now, selectorVars, relayVars, triggerVars, utilVars>>

----------------------------------------------------------------------------
\* Status strings: head ++ msg, or "Done - <words> words, <chars> chars" ++ tail.

St(text) == [head |-> text, msg |-> "", words |-> 0, chars |-> 0, tail |-> ""]

ErrorStatus(message) ==
    [head |-> "Error: ", msg |-> message, words |-> 0, chars |-> 0, tail |-> ""]

DoneStatus(wordCount, charCount, copied) ==
    [head |-> "Done - ", msg |-> "", words |-> wordCount, chars |-> charCount,
     tail |-> IF copied THEN " (copied to clipboard)" ELSE ""]

\* Recognized texts the engine may return: sequences of characters.
Texts == {<<>>, <<" ">>, <<"a", " ", "b">>}

IsSpace(ch) == ch \in {" ", "\n"}

\* text.trim() is non-empty
HasText(text) == \E i \in 1..Len(text) : ~IsSpace(text[i])

\* text.trim().split(/\s+/).length for a text with HasText(text)
SplitLength(text) ==
    LET first == CHOOSE i \in 1..Len(text) :
                    ~IsSpace(text[i]) /\ \A j \in 1..(i - 1) : IsSpace(text[j])
        last == CHOOSE i \in 1..Len(text) :
                    ~IsSpace(text[i]) /\ \A j \in (i + 1)..Len(text) : IsSpace(text[j])
    IN  1 + Cardinality({i \in first..(last - 1) :
                            IsSpace(text[i]) /\ ~IsSpace(text[i + 1])})

\* Failure messages of the external operations.
CaptureErrors == {"Capture failed"}
CropErrors ==
    {"Failed to load image for cropping", "Failed to get canvas context",
     "Failed to create blob from canvas"}
EngineErrors == {"Engine failure"}
StorageErrors == {"Storage failure"}

----------------------------------------------------------------------------
\* The controller's synchronous helpers, as functions of the closure state.

\* The idle UI state: not processing, capture buttons enabled, cancel hidden.
Idle(c) ==
    /\ ~c.isProcessing
    /\ ~c.screenshotBtnDisabled
    /\ ~c.regionBtnDisabled
    /\ c.cancelBtnDisplay = "none"

SetProcessing(c, processing) ==
    [c EXCEPT !.isProcessing = processing,
              !.screenshotBtnDisabled = processing,
              !.regionBtnDisabled = processing,
              !.cancelBtnDisplay = IF processing THEN "flex" ELSE "none"]

UpdateStatus(c, status) == [c EXCEPT !.statusText = status]

\* The status a handler's catch block shows for a failure with this message.
CatchStatus(c, message) ==
    IF c.isCancelled \/ message = "Cancelled"
    THEN St("Cancelled")
    ELSE ErrorStatus(message)

\* catch block of handleScreenshotClick / handleRegionCapture
CatchError(c, message) ==
    SetProcessing(UpdateStatus(c, CatchStatus(c, message)), FALSE)

\* A runOcrOnFile whose finally block does not reset the processing state.
RunOcrFinallyNoReset(c) == c

\* finally block of runOcrOnFile
RunOcrFinally(c) == SetProcessing(c, FALSE)

\* A failure inside runOcrOnFile: its finally, then the caller's catch.
FailInRunOcr(c, message) == CatchError(RunOcrFinally(c), message)

----------------------------------------------------------------------------
\* A handler invocation: where it is suspended (pc), the worker promise it
\* awaits or the worker it recognizes on, the text it recognized, whether
\* cancelOcr was invoked while its recognize call was outstanding, whether
\* cancelOcr was invoked while it was inside runOcrOnFile, and whether it was
\* triggered after an engine initialization had failed.
NoRequest ==
    [pc |-> "none", promise |-> Null, text |-> <<>>, recognizeCancelled |-> FALSE,
     cancelled |-> FALSE, afterInitFailure |-> FALSE]

DoneRequest == [NoRequest EXCEPT !.pc = "done"]

\* A createWorker call: the state of the getWorker IIFE around it (pc), the
\* message it rejected with, whether the engine exists, whether terminate()
\* was called on it, and the phase ("init" or "live") in which it first saw a
\* cancelOcr invocation.
NoWorker ==
    [pc |-> "none", err |-> "", created |-> FALSE, terminateCalled |-> FALSE,
     cancelledIn |-> ""]

Rect(x, y, width, height) == [x |-> x, y |-> y, width |-> width, height |-> height]

NoHandoff ==
    [present |-> FALSE, dataUrl |-> Null, rect |-> Rect(0, 0, 0, 0),
     timestamp |-> 0]

\* A record that leaves out the rect of the message.
PendingRegionOcrNoRect(dataUrl, rect, timestamp) ==
    [present |-> TRUE, dataUrl |-> dataUrl, rect |-> Rect(0, 0, 0, 0),
     timestamp |-> timestamp]

\* The record the relay stores: the screenshot (named by the relay call that
\* captured it), the rect of the message, and the time of the write.
PendingRegionOcr(dataUrl, rect, timestamp) ==
    [present |-> TRUE, dataUrl |-> dataUrl, rect |-> rect,
     timestamp |-> timestamp]

Handoff(t) == PendingRegionOcr(1, Rect(0, 0, 200, 200), t)

StartTime == 2 * FreshnessMs

\* Ages of a stored handoff when the popup opens.
Ages == {FreshnessMs - 1, FreshnessMs + 1}

NextReq == 1 + Cardinality({r \in ReqIds : req[r].pc # "none"})

NextWorker == 1 + Cardinality({w \in WorkerIds : worker[w].pc # "none"})

\* Some createWorker call has rejected.
InitFailed ==
    \E w \in WorkerIds :
        worker[w].pc = "rejected" /\ worker[w].err \in EngineErrors
        /\ ~worker[w].created

Waiters(p) == {r \in ReqIds : req[r].pc = "awaitWorker" /\ req[r].promise = p}

----------------------------------------------------------------------------
\* The region selector (content script) of one page.

MaxInjections == 2

MinSelection == 10

SelectorIds == 1..MaxInjections

\* window.innerWidth / window.innerHeight of the page.
Viewport == [width |-> 104, height |-> 100]

\* clientX / clientY of pointer events; a drag may end outside the viewport.
XCoords == {-5, 0, 2, 3, 100, 110}

YCoords == {0, 100}

\* Where a mousedown can hit the overlay: inside the viewport.
InViewport(x, y) ==
    /\ 0 <= x /\ x < Viewport.width
    /\ 0 <= y /\ y < Viewport.height

\* Values of window.devicePixelRatio as <<numerator, denominator>>; <<0, 1>>
\* stands for a missing (falsy) value.
Ratios == {<<0, 1>>, <<5, 4>>, <<2, 1>>}

Elements == {"selectionOverlay", "selectionBox", "instructionsPanel"}

\* The listeners createOverlay registers on document.
DocumentHandlers == {"mousemove", "mouseup", "keydown"}

Keys == {"Escape", "Enter"}

NoBox == [display |-> "none", left |-> 0, top |-> 0, width |-> 0, height |-> 0]

\* One injection: the selector state of the design (state), the elements it
\* has in document.body (attached), its registered listeners (handlers), its
\* closure variables, the style of its selection box, the number of
\* sendMessage calls it made (sent), and the state in which it saw Escape.
NoSelector ==
    [state |-> "none", attached |-> {}, handlers |-> {}, isSelecting |-> FALSE,
     selectionStartX |-> 0, selectionStartY |-> 0, box |-> NoBox, sent |-> 0,
     escapedIn |-> ""]

\* Nothing sent yet.  A sent message is kept with the injection that sent it
\* (from), the clamped logical rectangle (selectedRegion) and the value of
\* window.devicePixelRatio it was scaled with.
NoMessage ==
    [type |-> "", rect |-> Rect(0, 0, 0, 0), from |-> 0,
     selectedRegion |-> Rect(0, 0, 0, 0), devicePixelRatio |-> <<0, 1>>]

----------------------------------------------------------------------------
\* The capture relay (background service worker) and the windows it opens.

MaxMessages == 2

MaxElapses == 1

RelayIds == 1..MaxMessages

\* The messages the background listener may receive: selections with a rect
\* in device pixels, and a message of another type.
Messages ==
    {[type |-> "regionSelected", rect |-> r] :
        r \in {Rect(0, 0, 200, 200), Rect(4, 0, 121, 125)}}
    \cup {[type |-> "ping", rect |-> Rect(0, 0, 0, 0)]}

\* A message received and the handleRegionSelection call it started: where
\* the call is suspended ("ignored": no call), its rect argument, the
\* Date.now() of its storage write, and the await at which it failed.
NoRelay ==
    [pc |-> "none", rect |-> Rect(0, 0, 0, 0), timestamp |-> 0, failedAt |-> ""]

\* checkRegionMode of the window opened by relay call i: where it is, and the
\* record it read from the slot.
NoPopup == [pc |-> "none", read |-> NoHandoff]

----------------------------------------------------------------------------
\* The region trigger of the popup (handleRegionClick).

MaxClicks == 1

ClickIds == 1..MaxClicks

\* The URL prefixes handleRegionClick refuses, as sequences of characters.
ChromeScheme == <<"c", "h", "r", "o", "m", "e", ":", "/", "/">>

ExtensionScheme ==
    <<"c", "h", "r", "o", "m", "e", "-", "e", "x", "t", "e", "n", "s", "i", "o",
      "n", ":", "/", "/">>

AboutScheme == <<"a", "b", "o", "u", "t", ":">>

EdgeScheme == <<"e", "d", "g", "e", ":", "/", "/">>

BraveScheme == <<"b", "r", "a", "v", "e", ":", "/", "/">>

\* URLs the active tab may have: one under each refused prefix, a web page,
\* and a page whose scheme only begins like a refused one.
Urls ==
    {prefix \o <<"x">> :
        prefix \in {ChromeScheme, ExtensionScheme, AboutScheme, EdgeScheme,
                    BraveScheme}}
    \cup {<<"h", "t", "t", "p", "s", ":", "/", "/", "x">>,
          <<"c", "h", "r", "o", "m", "e", "-", "s", "e", "a", "r", "c", "h", ":",
            "/", "/", "x">>}

\* tabs.query found no active tab.
NoTab == [present |-> FALSE, url |-> <<>>]

\* What tabs.query may resolve with: no tab, a tab without URL, a tab with URL.
Tabs == {NoTab} \cup {[present |-> TRUE, url |-> u] : u \in {<<>>} \cup Urls}

\* Failure messages of tabs.query and scripting.executeScript.
InjectionErrors == {"Cannot access contents of the page", "Could not load file"}

\* A handleRegionClick call: where it is suspended, the tab tabs.query gave
\* it, and whether it called scripting.executeScript.
NoClick == [pc |-> "none", tab |-> NoTab, executeScript |-> FALSE]

----------------------------------------------------------------------------
\* The utility functions (utils.js): their arguments and results.

MAX_PIXELS == 5000000

MAX_DIMENSION == 3000

\* No image decoded: scaleImageIfNeeded was not called.
NoImage == [width |-> 0, height |-> 0, loads |-> FALSE, context |-> FALSE]

\* Sizes of the screenshots given to scaleImageIfNeeded: within the limits,
\* on the limits, over one limit only, over several, and extreme shapes.
ImageSizes ==
    {<<1, 1>>, <<2500, 2000>>, <<3000, 1666>>, <<3000, 1>>, <<2500, 2001>>,
     <<3000, 2000>>, <<3001, 1>>, <<1, 3001>>, <<3600, 2000>>, <<4000, 3000>>,
     <<6000, 3000>>, <<3000, 6000>>, <<10000, 1000>>, <<2, 9000>>}

\* The payloads: one that does not decode (img.onerror), and each size with
\* and without a 2D context for the canvas.
Images ==
    {NoImage} \cup
    {[width |-> z[1], height |-> z[2], loads |-> TRUE, context |-> ctx] :
        z \in ImageSizes, ctx \in BOOLEAN}

\* What scaleImageIfNeeded resolved with: scaled, whether dataUrl is the
\* argument itself, whether drawImage ran, the scale it computed ("one", or
\* the clamp that set it last) and the canvas size.
NoScaleResult ==
    [pc |-> "none", scaled |-> FALSE, sameDataUrl |-> FALSE, rendered |-> FALSE,
     scale |-> "one", width |-> 0, height |-> 0]

MaxLen == 3

\* countWords was not called.
NoText == [type |-> "undefined", chars |-> <<>>]

\* Arguments of countWords: null, undefined, and the strings of at most
\* MaxLen characters over a letter, a blank and a line break.
TextArgs ==
    {NoText, [type |-> "null", chars |-> <<>>]} \cup
    {[type |-> "string", chars |-> t] :
        t \in UNION {[1..n -> {"a", " ", "\n"}] : n \in 0..MaxLen}}

NoCount == [pc |-> "none", value |-> 0]

TypeOK ==
    /\ ctl.workerPromise \in {Null} \cup WorkerIds
    /\ ctl.currentWorker \in {Null} \cup WorkerIds
    /\ ctl.isProcessing \in BOOLEAN
    /\ ctl.isCancelled \in BOOLEAN
    /\ cancelPending \in 0..MaxCancels
    /\ nCancel \in 0..MaxCancels
    /\ regionPc \in {"idle", "get", "remove"}

ContextsInit ==
    /\ ctl = [workerPromise |-> Null, currentWorker |-> Null,
              isProcessing |-> FALSE, isCancelled |-> FALSE,
              statusText |-> St("Ready"), outputValue |-> <<>>,
              screenshotBtnDisabled |-> FALSE, regionBtnDisabled |-> FALSE,
              cancelBtnDisplay |-> "none"]
    /\ worker = [w \in WorkerIds |-> NoWorker]
    /\ req = [r \in ReqIds |-> NoRequest]
    /\ cancelPending = 0
    /\ nCancel = 0
    /\ now = StartTime
    /\ pendingRegionOcr = NoHandoff
    /\ \/ /\ regionPc = "idle"
          /\ store \in {NoHandoff, Handoff(StartTime)}
       \/ /\ regionPc = "get"
          /\ store \in {NoHandoff} \cup {Handoff(StartTime - a) : a \in Ages}
    /\ selectorActive = FALSE
    /\ injections = 0
    /\ sel = [a \in SelectorIds |-> NoSelector]
    /\ outbox = NoMessage
    /\ relay = [k \in RelayIds |-> NoRelay]
    /\ popup = [i \in RelayIds |-> NoPopup]
    /\ lastWrite = Null
    /\ regionClick = [c \in ClickIds |-> NoClick]
    /\ windowClosed = FALSE

\* The state after construction of each context; no utility function called.
Init ==
    /\ ContextsInit
    /\ img = NoImage
    /\ scaleResult = NoScaleResult
    /\ countArg = NoText
    /\ countResult = NoCount

----------------------------------------------------------------------------
\* A getWorker that starts a new engine for every request.
NeedsNewWorkerAlways(c) == TRUE

\* getWorker: a new engine is started only when no worker promise is cached.
NeedsNewWorker(c) == c.workerPromise = Null

\* The post-initialization cancellation check of the getWorker IIFE.
CancelledAfterInit(c) == c.isCancelled

\* Tail of cancelOcr, after the await of terminate() (if any).
CancelFinish(c) ==
    UpdateStatus(
        SetProcessing([c EXCEPT !.workerPromise = Null, !.currentWorker = Null],
                      FALSE),
        St("Cancelled"))

\* The handler's guard on a trigger.
TriggerIgnored(c) == c.isProcessing

\* A freshness test with the operands of the subtraction swapped.
IsFreshSwapped(time, timestamp) == timestamp - time < FreshnessMs

\* checkRegionMode: the freshness test of a handoff read from the slot.
IsFresh(time, timestamp) == time - timestamp < FreshnessMs

\* runOcrOnFile from its entry to its first suspension, for request r, entered
\* with closure state c0: setProcessing(true), getWorker(), await.
RunOcrOnFile(r, c0) ==
    LET c1 == SetProcessing(c0, TRUE)
        fresh == NeedsNewWorker(c1)
        p == IF fresh THEN NextWorker ELSE c1.workerPromise
        c2 == IF fresh
              THEN UpdateStatus([c1 EXCEPT !.isCancelled = FALSE,
                                           !.workerPromise = p],
                                St("Loading OCR engine..."))
              ELSE c1
        w1 == IF fresh THEN [worker EXCEPT ![p].pc = "createWorker"] ELSE worker
    IN  CASE w1[p].pc = "resolved" ->
                /\ ctl' = UpdateStatus(c2, St("Recognizing..."))
                /\ worker' = w1
                /\ req' = [req EXCEPT ![r].pc = "recognize", ![r].promise = p]
          [] w1[p].pc = "rejected" ->
                /\ ctl' = FailInRunOcr(c2, w1[p].err)
                /\ worker' = w1
                /\ req' = [req EXCEPT ![r] = DoneRequest]
          [] OTHER ->
                /\ ctl' = c2
                /\ worker' = w1
                /\ req' = [req EXCEPT ![r].pc = "awaitWorker", ![r].promise = p]

----------------------------------------------------------------------------
\* User clicks "OCR current tab": handleScreenshotClick up to its first await.
\* (While checkRegionMode is pending, one request id is kept for its request.)
HandleScreenshotClick ==
    /\ NextReq <= MaxRequests - (IF regionPc \in {"get", "remove"} THEN 1 ELSE 0)
    /\ IF TriggerIgnored(ctl)
       THEN UNCHANGED <<ctl, req>>
       ELSE /\ ctl' = UpdateStatus([ctl EXCEPT !.outputValue = <<>>],
                                   St("Capturing screenshot..."))
            /\ req' = [req EXCEPT ![NextReq] =
                           [NoRequest EXCEPT !.pc = "capture",
                                             !.afterInitFailure = InitFailed]]
    /\ UNCHANGED <<worker, cancelPending, nCancel, regionPc, pendingRegionOcr,
                   store, now>>
    /\ UNCHANGED <<selectorVars, relayVars, triggerVars, utilVars>>

\* captureCurrentTabAsFile rejects with this message: the handler's catch.
CaptureRejects(r, m) ==
    /\ req[r].pc = "capture"
    /\ ctl' = CatchError(ctl, m)
    /\ req' = [req EXCEPT ![r] = DoneRequest]
    /\ UNCHANGED worker

\* captureCurrentTabAsFile settles (tabs.query, captureVisibleTab, scaling).
CaptureSettles(r) ==
    /\ req[r].pc = "capture"
    /\ \/ \E scaled \in BOOLEAN :
            RunOcrOnFile(r, IF scaled
                            THEN UpdateStatus(ctl, St("Scaling large image..."))
                            ELSE ctl)
       \/ \E m \in CaptureErrors : CaptureRejects(r, m)
    /\ UNCHANGED <<cancelPending, nCancel, regionPc, pendingRegionOcr, store,
                   now>>
    /\ UNCHANGED <<selectorVars, relayVars, triggerVars, utilVars>>

\* cropImageToRegion rejects with this message: the catch block of
\* handleRegionCapture.
CropRejects(r, m) ==
    /\ req[r].pc = "crop"
    /\ ctl' = CatchError(ctl, m)
    /\ req' = [req EXCEPT ![r] = DoneRequest]
    /\ UNCHANGED worker

\* cropImageToRegion settles for the region request.
CropSettles(r) ==
    /\ req[r].pc = "crop"
    /\ \/ RunOcrOnFile(r, ctl)
       \/ \E m \in CropErrors : CropRejects(r, m)
    /\ UNCHANGED <<cancelPending, nCancel, regionPc, pendingRegionOcr, store,
                   now>>
    /\ UNCHANGED <<selectorVars, relayVars, triggerVars, utilVars>>

\* createWorker resolves: the rest of the getWorker IIFE, then every request
\* awaiting the worker promise resumes in the same microtask checkpoint.
CreateWorkerResolves(w) ==
    /\ worker[w].pc = "createWorker"
    /\ IF CancelledAfterInit(ctl)
       THEN /\ worker' = [worker EXCEPT ![w].created = TRUE,
                                        ![w].terminateCalled = TRUE,
                                        ![w].pc = "terminate"]
            /\ UNCHANGED <<ctl, req>>
       ELSE LET c1 == UpdateStatus([ctl EXCEPT !.currentWorker = w], St("Ready"))
                ws == Waiters(w)
            IN  /\ ctl' = IF ws # {} THEN UpdateStatus(c1, St("Recognizing..."))
                                     ELSE c1
                /\ worker' = [worker EXCEPT ![w].created = TRUE,
                                            ![w].pc = "resolved"]
                /\ req' = [r \in ReqIds |->
                              IF r \in ws THEN [req[r] EXCEPT !.pc = "recognize"]
                                          ELSE req[r]]
    /\ UNCHANGED <<cancelPending, nCancel, regionPc, pendingRegionOcr, store,
                   now>>
    /\ UNCHANGED <<selectorVars, relayVars, triggerVars, utilVars>>

\* The worker promise rejects with this message: every request awaiting it
\* runs its finally and its handler's catch.
RejectWorker(w, message) ==
    LET ws == Waiters(w)
    IN  /\ worker' = [worker EXCEPT ![w].pc = "rejected", ![w].err = message]
        /\ ctl' = IF ws # {} THEN FailInRunOcr(ctl, message) ELSE ctl
        /\ req' = [r \in ReqIds |->
                      IF r \in ws THEN DoneRequest ELSE req[r]]

\* createWorker rejects.
CreateWorkerRejects(w) ==
    /\ worker[w].pc = "createWorker"
    /\ \E m \in EngineErrors : RejectWorker(w, m)
    /\ UNCHANGED <<cancelPending, nCancel, regionPc, pendingRegionOcr, store,
                   now>>
    /\ UNCHANGED <<selectorVars, relayVars, triggerVars, utilVars>>

\* terminate() of the cancelled initialization settles: throw "Cancelled", or
\* the failure of terminate() itself.
InitTerminateSettles(w) ==
    /\ worker[w].pc = "terminate"
    /\ \E m \in {"Cancelled"} \cup EngineErrors : RejectWorker(w, m)
    /\ UNCHANGED <<cancelPending, nCancel, regionPc, pendingRegionOcr, store,
                   now>>
    /\ UNCHANGED <<selectorVars, relayVars, triggerVars, utilVars>>

\* runOcrOnFile resumed with this text: the output is set, then
\* copyToClipboard is awaited, or the request ends with nothing found.
RecognizeResolvesWith(r, text) ==
    LET c1 == [ctl EXCEPT !.outputValue = text]
    IN  IF HasText(text)
        THEN /\ ctl' = c1
             /\ req' = [req EXCEPT ![r].pc = "clipboard", ![r].text = text]
        ELSE /\ ctl' = RunOcrFinally(UpdateStatus(c1, St("Done - no text found")))
             /\ req' = [req EXCEPT ![r] = DoneRequest]

\* worker.recognize resolves with a text.
RecognizeResolves(r) ==
    /\ req[r].pc = "recognize"
    /\ \E text \in Texts : RecognizeResolvesWith(r, text)
    /\ UNCHANGED <<worker, cancelPending, nCancel, regionPc, pendingRegionOcr,
                   store, now>>
    /\ UNCHANGED <<selectorVars, relayVars, triggerVars, utilVars>>

\* worker.recognize rejects.
RecognizeRejects(r) ==
    /\ req[r].pc = "recognize"
    /\ \E m \in EngineErrors :
        /\ ctl' = FailInRunOcr(ctl, m)
        /\ req' = [req EXCEPT ![r] = DoneRequest]
    /\ UNCHANGED <<worker, cancelPending, nCancel, regionPc, pendingRegionOcr,
                   store, now>>
    /\ UNCHANGED <<selectorVars, relayVars, triggerVars, utilVars>>

\* A status that claims the copy whether or not it succeeded.
RecognizedStatusAlwaysCopied(text, copied) ==
    DoneStatus(SplitLength(text), Len(text), TRUE)

\* runOcrOnFile: the status after copyToClipboard(text) returned copied.
RecognizedStatus(text, copied) ==
    DoneStatus(SplitLength(text), Len(text), copied)

\* copyToClipboard returns copied: the Done status, then the finally block.
CopyToClipboardReturns(r, copied) ==
    /\ ctl' = RunOcrFinally(
                UpdateStatus(ctl, RecognizedStatus(req[r].text, copied)))
    /\ req' = [req EXCEPT ![r] = DoneRequest]

\* navigator.clipboard.writeText settles (copyToClipboard returns copied).
ClipboardSettles(r) ==
    /\ req[r].pc = "clipboard"
    /\ \E copied \in BOOLEAN : CopyToClipboardReturns(r, copied)
    /\ UNCHANGED <<worker, cancelPending, nCancel, regionPc, pendingRegionOcr,
                   store, now>>
    /\ UNCHANGED <<selectorVars, relayVars, triggerVars, utilVars>>

\* The cancel button is shown (setProcessing) and can be clicked.
CancelAvailable(c) == c.cancelBtnDisplay = "flex"

\* User clicks "Cancel": cancelOcr up to its await of terminate(), or to its
\* end when there is no current worker.
CancelOcr ==
    /\ nCancel < MaxCancels
    /\ CancelAvailable(ctl)
    /\ nCancel' = nCancel + 1
    /\ req' = [r \in ReqIds |->
                 [req[r] EXCEPT
                     !.recognizeCancelled = @ \/ req[r].pc = "recognize",
                     !.cancelled = @ \/ req[r].pc \in {"awaitWorker", "recognize",
                                                       "clipboard"}]]
    /\ LET c1 == [ctl EXCEPT !.isCancelled = TRUE]
           seen == [w \in WorkerIds |->
                      [worker[w] EXCEPT !.cancelledIn =
                           IF @ # "" THEN @
                           ELSE IF worker[w].pc = "createWorker" THEN "init"
                           ELSE IF worker[w].pc = "resolved" THEN "live"
                           ELSE ""]]
       IN  IF c1.currentWorker # Null
           THEN /\ worker' = [seen EXCEPT ![c1.currentWorker].terminateCalled = TRUE]
                /\ cancelPending' = cancelPending + 1
                /\ ctl' = c1
           ELSE /\ worker' = seen
                /\ cancelPending' = cancelPending
                /\ ctl' = CancelFinish(c1)
    /\ UNCHANGED <<regionPc, pendingRegionOcr, store, now>>
    /\ UNCHANGED <<selectorVars, relayVars, triggerVars, utilVars>>

\* terminate() awaited by cancelOcr settles (a rejection is ignored).
CancelTerminateSettles ==
    /\ cancelPending > 0
    /\ cancelPending' = cancelPending - 1
    /\ ctl' = CancelFinish(ctl)
    /\ UNCHANGED <<worker, req, nCancel, regionPc, pendingRegionOcr, store, now>>
    /\ UNCHANGED <<selectorVars, relayVars, triggerVars, utilVars>>

\* A test that takes every result of the get for a handoff.
HasPendingAlways(slot) == TRUE

\* checkRegionMode: the test of result.pendingRegionOcr.
HasPending(slot) == slot.present

\* checkRegionMode: chrome.storage.local.get resolves; a handoff is kept and
\* its removal requested, and without one checkRegionMode returns.
StorageGetResolves ==
    IF HasPending(store)
    THEN /\ pendingRegionOcr' = store
         /\ regionPc' = "remove"
         /\ UNCHANGED ctl
    ELSE /\ regionPc' = "idle"
         /\ UNCHANGED <<ctl, pendingRegionOcr>>

\* checkRegionMode: chrome.storage.local.get settles.
StorageGetSettles ==
    /\ regionPc = "get"
    /\ \/ StorageGetResolves
       \/ \E m \in StorageErrors :
          /\ ctl' = UpdateStatus(ctl, ErrorStatus(m))
          /\ regionPc' = "idle"
          /\ UNCHANGED pendingRegionOcr
    /\ UNCHANGED <<worker, req, cancelPending, nCancel, store, now>>
    /\ UNCHANGED <<selectorVars, relayVars, triggerVars, utilVars>>

\* checkRegionMode: chrome.storage.local.remove settles, then the freshness
\* test and handleRegionCapture up to its await of cropImageToRegion.
StorageRemoveSettles ==
    /\ regionPc = "remove"
    /\ regionPc' = "idle"
    /\ \/ /\ store' = NoHandoff
          /\ IF IsFresh(now, pendingRegionOcr.timestamp)
             THEN /\ ctl' = UpdateStatus(ctl, St("Cropping region..."))
                  /\ req' = [req EXCEPT ![NextReq] =
                                 [NoRequest EXCEPT !.pc = "crop"]]
             ELSE /\ ctl' = UpdateStatus(ctl,
                                St("Region data expired, please try again"))
                  /\ UNCHANGED req
       \/ \E m \in StorageErrors :
          /\ ctl' = UpdateStatus(ctl, ErrorStatus(m))
          /\ UNCHANGED <<store, req>>
    /\ UNCHANGED <<worker, cancelPending, nCancel, pendingRegionOcr, now>>
    /\ UNCHANGED <<selectorVars, relayVars, triggerVars, utilVars>>

\* Time passes while checkRegionMode waits for the store.
Tick ==
    /\ regionPc \in {"get", "remove"}
    /\ now < StartTime + MaxTicks
    /\ now' = now + 1
    /\ UNCHANGED <<ctl, worker, req, cancelPending, nCancel, regionPc,
                   pendingRegionOcr, store>>
    /\ UNCHANGED <<selectorVars, relayVars, triggerVars, utilVars>>

Next ==
    \/ HandleScreenshotClick
    \/ CancelOcr
    \/ CancelTerminateSettles
    \/ StorageGetSettles
    \/ StorageRemoveSettles
    \/ Tick
    \/ \E r \in ReqIds : CaptureSettles(r)
    \/ \E r \in ReqIds : CropSettles(r)
    \/ \E r \in ReqIds : RecognizeResolves(r)
    \/ \E r \in ReqIds : RecognizeRejects(r)
    \/ \E r \in ReqIds : ClipboardSettles(r)
    \/ \E w \in WorkerIds : CreateWorkerResolves(w)
    \/ \E w \in WorkerIds : CreateWorkerRejects(w)
    \/ \E w \in WorkerIds : InitTerminateSettles(w)

Spec == Init /\ [][Next]_vars

\* No checkRegionMode is running (no popup is open in region mode), the slot
\* is empty, nothing was clicked, injected or relayed.
PopupClosedInit == Init /\ regionPc = "idle" /\ store = NoHandoff

----------------------------------------------------------------------------
\* The region trigger: handleRegionClick of the popup.

\* url.startsWith(prefix)
StartsWith(url, prefix) ==
    /\ Len(url) >= Len(prefix)
    /\ SubSeq(url, 1, Len(prefix)) = prefix

\* !tab || !tab.url
CannotAccessTab(tab) == ~tab.present \/ tab.url = <<>>

\* A list of refused prefixes without brave://.
IsRestrictedUrlNoBrave(url) ==
    \/ StartsWith(url, ChromeScheme)
    \/ StartsWith(url, ExtensionScheme)
    \/ StartsWith(url, AboutScheme)
    \/ StartsWith(url, EdgeScheme)

\* The pages on which handleRegionClick does not inject.
IsRestrictedUrl(url) ==
    \/ StartsWith(url, ChromeScheme)
    \/ StartsWith(url, ExtensionScheme)
    \/ StartsWith(url, AboutScheme)
    \/ StartsWith(url, EdgeScheme)
    \/ StartsWith(url, BraveScheme)

\* catch block of handleRegionClick: msg.includes("Cannot access") or
\* msg.includes("chrome://") gives the fixed text, else the message itself.
RegionCatchStatus(message) ==
    IF message = "Cannot access contents of the page"
    THEN ErrorStatus("Cannot select region on this page")
    ELSE ErrorStatus(message)

\* The popup's document is alive: window.close() was not called.
PopupOpen == ~windowClosed

NextClick == 1 + Cardinality({c \in ClickIds : regionClick[c].pc # "none"})

\* User clicks "Select region": handleRegionClick up to its await of
\* tabs.query.
HandleRegionClick ==
    /\ PopupOpen
    /\ NextClick <= MaxClicks
    /\ IF TriggerIgnored(ctl)
       THEN /\ regionClick' = [regionClick EXCEPT ![NextClick].pc = "ignored"]
            /\ UNCHANGED ctl
       ELSE /\ ctl' = UpdateStatus([ctl EXCEPT !.outputValue = <<>>],
                                   St("Select a region on the page..."))
            /\ regionClick' = [regionClick EXCEPT ![NextClick].pc = "query"]
    /\ UNCHANGED <<worker, req, cancelPending, nCancel, regionPc,
                   pendingRegionOcr, store, now, windowClosed, selectorVars,
                   relayVars, utilVars>>

\* tabs.query settles: the tab checks, then scripting.executeScript is
\* called, or one of the two refusals is shown and the handler returns.
TabsQuerySettles(c) ==
    /\ PopupOpen
    /\ regionClick[c].pc = "query"
    /\ \/ \E tab \in Tabs :
            IF CannotAccessTab(tab)
            THEN /\ ctl' = UpdateStatus(ctl, ErrorStatus("Cannot access this tab"))
                 /\ regionClick' = [regionClick EXCEPT ![c].pc = "done",
                                                       ![c].tab = tab]
            ELSE IF IsRestrictedUrl(tab.url)
            THEN /\ ctl' = UpdateStatus(
                               ctl,
                               ErrorStatus("Cannot select region on browser pages"))
                 /\ regionClick' = [regionClick EXCEPT ![c].pc = "done",
                                                       ![c].tab = tab]
            ELSE /\ regionClick' = [regionClick EXCEPT ![c].pc = "executeScript",
                                                       ![c].tab = tab,
                                                       ![c].executeScript = TRUE]
                 /\ UNCHANGED ctl
       \/ \E m \in InjectionErrors :
            /\ ctl' = UpdateStatus(ctl, RegionCatchStatus(m))
            /\ regionClick' = [regionClick EXCEPT ![c].pc = "done"]
    /\ UNCHANGED <<worker, req, cancelPending, nCancel, regionPc,
                   pendingRegionOcr, store, now, windowClosed, selectorVars,
                   relayVars, utilVars>>

\* scripting.executeScript settles: window.close(), or the catch block.
ExecuteScriptSettles(c) ==
    /\ PopupOpen
    /\ regionClick[c].pc = "executeScript"
    /\ \/ /\ windowClosed' = TRUE
          /\ regionClick' = [regionClick EXCEPT ![c].pc = "done"]
          /\ UNCHANGED ctl
       \/ \E m \in InjectionErrors :
            /\ ctl' = UpdateStatus(ctl, RegionCatchStatus(m))
            /\ regionClick' = [regionClick EXCEPT ![c].pc = "done"]
            /\ UNCHANGED windowClosed
    /\ UNCHANGED <<worker, req, cancelPending, nCancel, regionPc,
                   pendingRegionOcr, store, now, selectorVars, relayVars,
                   utilVars>>

\* The popup as long as its window is open: region triggers, and full
\* capture requests that run to their end without a cancel.
TriggerNext ==
    \/ HandleRegionClick
    \/ \E c \in ClickIds : TabsQuerySettles(c)
    \/ \E c \in ClickIds : ExecuteScriptSettles(c)
    \/ PopupOpen /\ HandleScreenshotClick
    \/ \E r \in ReqIds : PopupOpen /\ CaptureSettles(r)
    \/ \E r \in ReqIds : PopupOpen /\ RecognizeResolves(r)
    \/ \E r \in ReqIds : PopupOpen /\ RecognizeRejects(r)
    \/ \E r \in ReqIds : PopupOpen /\ ClipboardSettles(r)
    \/ \E w \in WorkerIds : PopupOpen /\ CreateWorkerResolves(w)
    \/ \E w \in WorkerIds : PopupOpen /\ CreateWorkerRejects(w)

\* The popup opened by the user (not in region mode).
TriggerSpec == PopupClosedInit /\ [][TriggerNext]_vars

----------------------------------------------------------------------------
\* The region selector: the content script's IIFE and its event handlers.

Min(a, b) == IF a < b THEN a ELSE b

Max(a, b) == IF a > b THEN a ELSE b

Abs(a) == IF a < 0 THEN -a ELSE a

\* Truncation instead of rounding.
MathFloor(numerator, denominator) == numerator \div denominator

\* Math.round of numerator / denominator (denominator > 0): floor(x + 0.5).
MathRound(numerator, denominator) ==
    (2 * numerator + denominator) \div (2 * denominator)

\* window.devicePixelRatio || 1
DevicePixelRatio(ratio) == IF ratio[1] = 0 THEN <<1, 1>> ELSE ratio

\* An IIFE without the guard: every injection builds an overlay.
AlreadyActiveNever(flag) == FALSE

\* The guard of the IIFE against a second injection.
AlreadyActive(flag) == flag

\* createOverlay: three elements appended, four listeners registered.
CreateOverlay(s) ==
    [s EXCEPT !.state = "Idle", !.attached = Elements,
              !.handlers = {"mousedown"} \cup DocumentHandlers]

\* A cleanup that leaves the mouseup listener on the document.
CleanupKeepsMouseUp(s) ==
    [s EXCEPT !.attached = {}, !.handlers = @ \ {"mousemove", "keydown"},
              !.box = NoBox]

\* A cleanup that leaves the overlay element in the page.
CleanupKeepsOverlay(s) ==
    [s EXCEPT !.attached = @ \cap {"selectionOverlay"},
              !.handlers = @ \ DocumentHandlers, !.box = NoBox]

\* A cleanup that removes the listeners but not the elements.
CleanupKeepsElements(s) == [s EXCEPT !.handlers = @ \ DocumentHandlers]

\* cleanup: the elements leave the document (the style of the removed box is
\* no longer part of the page) and the document listeners are removed; the
\* mousedown listener stays on the removed overlay.
Cleanup(s) ==
    [s EXCEPT !.attached = {}, !.handlers = @ \ DocumentHandlers, !.box = NoBox]

\* handleMouseUp: normalized coordinates of a drag from the anchor to (x, y).
NormalizedRegion(startX, startY, x, y) ==
    Rect(Min(startX, x), Min(startY, y), Abs(x - startX), Abs(y - startY))

\* A size test that discards only selections small in both directions.
TooSmallBoth(r) == r.width < MinSelection /\ r.height < MinSelection

\* handleMouseUp: the minimum selection size test.
TooSmall(r) == r.width < MinSelection \/ r.height < MinSelection

\* handleMouseUp: clamp to the viewport.
ClampToViewport(r) ==
    LET x == Max(0, r.x)
        y == Max(0, r.y)
    IN  Rect(x, y, Min(r.width, Viewport.width - x),
             Min(r.height, Viewport.height - y))

\* handleMouseUp: deviceScaledRegion for a ratio <<numerator, denominator>>.
DeviceScaledRegion(r, ratio) ==
    Rect(MathRound(r.x * ratio[1], ratio[2]),
         MathRound(r.y * ratio[1], ratio[2]),
         MathRound(r.width * ratio[1], ratio[2]),
         MathRound(r.height * ratio[1], ratio[2]))

\* The screenshot captureVisibleTab takes of the page: the viewport at device
\* pixel resolution (the viewport sizes of the model give whole numbers).
CapturedImage(ratio) ==
    [width |-> (Viewport.width * ratio[1]) \div ratio[2],
     height |-> (Viewport.height * ratio[1]) \div ratio[2]]

\* handleKeyDown: the key test.
IsEscape(key) == key = "Escape"

\* The content script is injected into the page (scripting.executeScript).
InjectContentScript ==
    /\ injections < MaxInjections
    /\ injections' = injections + 1
    /\ IF AlreadyActive(selectorActive)
       THEN /\ sel' = [sel EXCEPT ![injections + 1].state = "NoOp"]
            /\ UNCHANGED selectorActive
       ELSE /\ selectorActive' = TRUE
            /\ sel' = [sel EXCEPT ![injections + 1] = CreateOverlay(NoSelector)]
    /\ UNCHANGED <<outbox, controllerVars, store, now, relayVars, triggerVars,
                   utilVars>>

\* mousedown on the overlay of injection a (the topmost overlay in the page).
HandleMouseDown(a, x, y) ==
    /\ "mousedown" \in sel[a].handlers
    /\ "selectionOverlay" \in sel[a].attached
    /\ \A b \in SelectorIds : b > a => "selectionOverlay" \notin sel[b].attached
    /\ InViewport(x, y)
    /\ sel' = [sel EXCEPT ![a] =
                  [@ EXCEPT !.state = "Dragging", !.isSelecting = TRUE,
                            !.selectionStartX = x, !.selectionStartY = y,
                            !.box = [display |-> "block", left |-> x, top |-> y,
                                     width |-> 0, height |-> 0]]]
    /\ UNCHANGED <<selectorActive, injections, outbox, controllerVars, store,
                   now, relayVars, triggerVars, utilVars>>

\* mousemove on the document, delivered to the listener of injection a.
HandleMouseMove(a, x, y) ==
    /\ "mousemove" \in sel[a].handlers
    /\ IF ~sel[a].isSelecting
       THEN UNCHANGED sel
       ELSE LET r == NormalizedRegion(sel[a].selectionStartX,
                                      sel[a].selectionStartY, x, y)
            IN  sel' = [sel EXCEPT ![a].box =
                           [@ EXCEPT !.left = r.x, !.top = r.y,
                                     !.width = r.width, !.height = r.height]]
    /\ UNCHANGED <<selectorActive, injections, outbox, controllerVars, store,
                   now, relayVars, triggerVars, utilVars>>

\* mouseup on the document, delivered to the listener of injection a, with the
\* value window.devicePixelRatio has at that moment.
HandleMouseUp(a, x, y) ==
    /\ "mouseup" \in sel[a].handlers
    /\ IF ~sel[a].isSelecting
       THEN UNCHANGED <<selectorActive, sel, outbox>>
       ELSE LET s1 == [sel[a] EXCEPT !.isSelecting = FALSE]
                selectedRegion == NormalizedRegion(s1.selectionStartX,
                                                   s1.selectionStartY, x, y)
            IN  IF TooSmall(selectedRegion)
                THEN /\ sel' = [sel EXCEPT ![a] =
                                   [Cleanup(s1) EXCEPT !.state = "Cancelled"]]
                     /\ selectorActive' = FALSE
                     /\ UNCHANGED outbox
                ELSE \E ratio \in Ratios :
                        LET clamped == ClampToViewport(selectedRegion)
                        IN  /\ sel' = [sel EXCEPT ![a] =
                                          [Cleanup(s1) EXCEPT !.state = "Committed",
                                                              !.sent = @ + 1]]
                            /\ selectorActive' = FALSE
                            /\ outbox' =
                                 [type |-> "regionSelected",
                                  rect |-> DeviceScaledRegion(
                                               clamped, DevicePixelRatio(ratio)),
                                  from |-> a,
                                  selectedRegion |-> clamped,
                                  devicePixelRatio |-> ratio]
    /\ UNCHANGED <<injections, controllerVars, store, now, relayVars,
                   triggerVars, utilVars>>

\* keydown on the document, delivered to the listener of injection a.
HandleKeyDown(a, key) ==
    /\ "keydown" \in sel[a].handlers
    /\ IF IsEscape(key)
       THEN /\ sel' = [sel EXCEPT ![a] =
                          [Cleanup(sel[a]) EXCEPT !.state = "Cancelled",
                                                  !.escapedIn = sel[a].state]]
            /\ selectorActive' = FALSE
       ELSE UNCHANGED <<selectorActive, sel>>
    /\ UNCHANGED <<injections, outbox, controllerVars, store, now, relayVars,
                   triggerVars, utilVars>>

SelectorNext ==
    \/ InjectContentScript
    \/ \E a \in SelectorIds, x \in XCoords, y \in YCoords : HandleMouseDown(a, x, y)
    \/ \E a \in SelectorIds, x \in XCoords, y \in YCoords : HandleMouseMove(a, x, y)
    \/ \E a \in SelectorIds, x \in XCoords, y \in YCoords : HandleMouseUp(a, x, y)
    \/ \E a \in SelectorIds, key \in Keys : HandleKeyDown(a, key)

\* The page with the popup closed: only the selector acts.
SelectorSpec == PopupClosedInit /\ [][SelectorNext]_vars

----------------------------------------------------------------------------
\* The capture relay (background.js) and checkRegionMode of the windows it
\* opens, one per completed handoff write, all on the same storage slot.

\* A slot that keeps the record it already holds.
PutFirstWins(slot, record) == IF slot.present THEN slot ELSE record

\* chrome.storage.local.set of the key pendingRegionOcr.
Put(slot, record) == record

\* A remove that leaves the key in place.
RemoveNothing(slot) == slot

\* chrome.storage.local.remove of the key pendingRegionOcr.
Remove(slot) == NoHandoff

\* A relay that goes on to the write when the capture has failed.
AfterCaptureAlwaysSet(ok) == "set"

\* handleRegionSelection after the await of captureVisibleTab: the next
\* statement, or the catch block that logs the error.
AfterCapture(ok) == IF ok THEN "set" ELSE "logged"

\* Time that passes between two steps of the relay and its windows.
ElapseMs == FreshnessMs + 1

NextRelay == 1 + Cardinality({k \in RelayIds : relay[k].pc # "none"})

\* A listener that starts the relay for a message of any type.
IsRegionSelectedAny(message) == TRUE

\* The test of the onMessage listener.
IsRegionSelected(message) == message.type = "regionSelected"

\* handleRegionSelection(tab, rect) up to its await of captureVisibleTab.
HandleRegionSelection(rect) ==
    relay' = [relay EXCEPT ![NextRelay].pc = "capture", ![NextRelay].rect = rect]

\* A message arrives at the onMessage listener: handleRegionSelection is
\* called for a regionSelected message, nothing happens for any other.
OnMessage(message) ==
    /\ NextRelay <= MaxMessages
    /\ IF IsRegionSelected(message)
       THEN HandleRegionSelection(message.rect)
       ELSE relay' = [relay EXCEPT ![NextRelay].pc = "ignored"]
    /\ UNCHANGED <<popup, lastWrite, store, now, controllerVars, selectorVars,
                   triggerVars, utilVars>>

\* captureVisibleTab settles: storage.local.set is called with the capture and
\* Date.now(), or the failure is logged.
RelayCaptureSettles(k) ==
    /\ relay[k].pc = "capture"
    /\ \E ok \in BOOLEAN :
        relay' = [relay EXCEPT ![k] =
                     [pc |-> AfterCapture(ok),
                      rect |-> relay[k].rect,
                      timestamp |-> IF AfterCapture(ok) = "set" THEN now ELSE 0,
                      failedAt |-> IF ok THEN "" ELSE "capture"]]
    /\ UNCHANGED <<popup, lastWrite, store, now, controllerVars, selectorVars,
                   triggerVars, utilVars>>

\* storage.local.set settles: the record is in the slot and windows.create
\* opens a window in region mode, whose init() calls storage.local.get; or
\* the write failed and the failure is logged.
RelaySetSettles(k) ==
    /\ relay[k].pc = "set"
    /\ \/ /\ store' = Put(store, PendingRegionOcr(k, relay[k].rect,
                                              relay[k].timestamp))
          /\ lastWrite' = k
          /\ relay' = [relay EXCEPT ![k].pc = "done"]
          /\ popup' = [popup EXCEPT ![k].pc = "get"]
       \/ /\ relay' = [relay EXCEPT ![k].pc = "logged", ![k].failedAt = "set"]
          /\ UNCHANGED <<store, lastWrite, popup>>
    /\ UNCHANGED <<now, controllerVars, selectorVars,
                   triggerVars, utilVars>>

\* checkRegionMode of window i: storage.local.get settles.
PopupGetSettles(i) ==
    /\ popup[i].pc = "get"
    /\ \/ /\ store.present
          /\ popup' = [popup EXCEPT ![i] = [pc |-> "remove", read |-> store]]
       \/ /\ ~store.present
          /\ popup' = [popup EXCEPT ![i].pc = "idle"]
       \/ popup' = [popup EXCEPT ![i].pc = "error"]
    /\ UNCHANGED <<relay, lastWrite, store, now, controllerVars, selectorVars,
                   triggerVars, utilVars>>

\* checkRegionMode of window i: storage.local.remove settles, then the
\* freshness test: handleRegionCapture starts cropping, or the expired status.
PopupRemoveSettles(i) ==
    /\ popup[i].pc = "remove"
    /\ \/ /\ store' = Remove(store)
          /\ popup' = [popup EXCEPT ![i].pc =
                          IF IsFresh(now, popup[i].read.timestamp)
                          THEN "crop" ELSE "expired"]
       \/ /\ popup' = [popup EXCEPT ![i].pc = "error"]
          /\ UNCHANGED store
    /\ UNCHANGED <<relay, lastWrite, now, controllerVars, selectorVars,
                   triggerVars, utilVars>>

\* The user closes window i while its checkRegionMode waits for the store.
PopupWindowCloses(i) ==
    /\ popup[i].pc \in {"get", "remove"}
    /\ popup' = [popup EXCEPT ![i].pc = "closed"]
    /\ UNCHANGED <<relay, lastWrite, store, now, controllerVars, selectorVars,
                   triggerVars, utilVars>>

\* Time passes.
Elapse ==
    /\ now < StartTime + MaxElapses * ElapseMs
    /\ now' = now + ElapseMs
    /\ UNCHANGED <<relay, popup, lastWrite, store, controllerVars, selectorVars,
                   triggerVars, utilVars>>

RelayNext ==
    \/ \E message \in Messages : OnMessage(message)
    \/ Elapse
    \/ \E k \in RelayIds : RelayCaptureSettles(k)
    \/ \E k \in RelayIds : RelaySetSettles(k)
    \/ \E i \in RelayIds : PopupGetSettles(i)
    \/ \E i \in RelayIds : PopupRemoveSettles(i)
    \/ \E i \in RelayIds : PopupWindowCloses(i)

\* The relay and its windows: selections arrive as messages.
RelaySpec == PopupClosedInit /\ [][RelayNext]_vars

----------------------------------------------------------------------------
\* The utility functions: scaleImageIfNeeded and countWords.

\* The first test of img.onload: no scaling is needed.
WithinLimits(width, height) ==
    /\ width * height <= MAX_PIXELS
    /\ width <= MAX_DIMENSION
    /\ height <= MAX_DIMENSION

\* side * scale > MAX_DIMENSION, where other is the other dimension and scale
\* is 1 ("one"), Math.sqrt(MAX_PIXELS / pixels) ("sqrt") or MAX_DIMENSION /
\* other ("width": only the height is tested against it).  For "sqrt" the
\* squares are compared, side * MAX_PIXELS > MAX_DIMENSION^2 * other, both
\* sides divided by 10^6 to stay within the integers of the model checker.
ExceedsDimension(side, other, scale) ==
    CASE scale = "one" -> side > MAX_DIMENSION
      [] scale = "sqrt" ->
            side * (MAX_PIXELS \div 1000000)
                > ((MAX_DIMENSION * MAX_DIMENSION) \div 1000000) * other
      [] OTHER -> side > other

\* Clamps that skip the test of the height.
ScaleFactorNoHeightClamp(width, height) ==
    LET s1 == IF width * height > MAX_PIXELS THEN "sqrt" ELSE "one"
    IN  IF ExceedsDimension(width, height, s1) THEN "width" ELSE s1

\* The scale factor after the three sequential clamps, named by the clamp
\* that assigned it last.
ScaleFactor(width, height) ==
    LET s1 == IF width * height > MAX_PIXELS THEN "sqrt" ELSE "one"
        s2 == IF ExceedsDimension(width, height, s1) THEN "width" ELSE s1
    IN  IF ExceedsDimension(height, width, s2) THEN "height" ELSE s2

RECURSIVE IsqrtBetween(_, _, _)
\* The largest r in lo..hi with r * r <= n (lo * lo <= n).
IsqrtBetween(n, lo, hi) ==
    IF lo = hi THEN lo
    ELSE LET mid == (lo + hi + 1) \div 2
         IN  IF mid * mid <= n THEN IsqrtBetween(n, mid, hi)
                               ELSE IsqrtBetween(n, lo, mid - 1)

\* side * scale in exact arithmetic, as <<floor, whether it is an integer>>.
\* For "sqrt" it is the square root of side * MAX_PIXELS / other (at most
\* MAX_DIMENSION when no later clamp applies), the quotient taken by long
\* division; for a dimension clamp it is side * MAX_DIMENSION / clamped.
TimesScale(side, other, scale, clamped) ==
    IF scale = "sqrt"
    THEN LET high == side * (MAX_PIXELS \div 1000)
             low == (high % other) * 1000
             quotient == (high \div other) * 1000 + low \div other
             root == IsqrtBetween(quotient, 0, MAX_DIMENSION)
         IN  <<root, low % other = 0 /\ root * root = quotient>>
    ELSE <<(side * MAX_DIMENSION) \div clamped,
           (side * MAX_DIMENSION) % clamped = 0>>

\* Math.floor(side * scale) in double arithmetic: the exact floor, or one
\* less when the exact product is an integer and the rounding falls below it.
FloorTimesScale(side, other, scale, clamped) ==
    LET exact == TimesScale(side, other, scale, clamped)
    IN  IF exact[2] THEN {exact[1] - 1, exact[1]} ELSE {exact[1]}

\* scaleImageIfNeeded(dataUrl): img.onerror, or img.onload up to resolve.
ScaleImageIfNeeded ==
    /\ scaleResult.pc = "none"
    /\ IF ~img.loads \/ WithinLimits(img.width, img.height)
       THEN scaleResult' =
                [NoScaleResult EXCEPT !.pc = "resolved", !.sameDataUrl = TRUE]
       ELSE LET scale == ScaleFactor(img.width, img.height)
                clamped == IF scale = "width" THEN img.width ELSE img.height
            IN  \E newWidth \in FloorTimesScale(img.width, img.height, scale,
                                                clamped),
                   newHeight \in FloorTimesScale(img.height, img.width, scale,
                                                 clamped) :
                    scaleResult' =
                        [pc |-> "resolved", scaled |-> img.context,
                         sameDataUrl |-> ~img.context, rendered |-> img.context,
                         scale |-> scale, width |-> newWidth,
                         height |-> newHeight]
    /\ UNCHANGED <<img, countArg, countResult, controllerVars, store, now,
                   selectorVars, relayVars, triggerVars>>

\* A count that splits the text without trimming it first.
CountWordsNoTrim(text) ==
    IF text.type # "string" \/ text.chars = <<>> \/ ~HasText(text.chars)
    THEN 0
    ELSE 1 + Cardinality({i \in 1..Len(text.chars) :
                            /\ IsSpace(text.chars[i])
                            /\ (i = 1 \/ ~IsSpace(text.chars[i - 1]))})

\* countWords(text)
CountWords(text) ==
    IF text.type # "string" \/ text.chars = <<>> \/ ~HasText(text.chars)
    THEN 0
    ELSE SplitLength(text.chars)

\* countWords is called with the argument.
CountWordsReturns ==
    /\ countResult.pc = "none"
    /\ countResult' = [pc |-> "returned", value |-> CountWords(countArg)]
    /\ UNCHANGED <<img, scaleResult, countArg, controllerVars, store, now,
                   selectorVars, relayVars, triggerVars>>

\* runOcrOnFile shows the Done status for the argument as recognized text.
ShowRecognizedStatus ==
    /\ countArg.type = "string"
    /\ HasText(countArg.chars)
    /\ ctl.statusText = St("Ready")
    /\ \E copied \in BOOLEAN :
          ctl' = UpdateStatus(ctl, RecognizedStatus(countArg.chars, copied))
    /\ UNCHANGED <<worker, req, cancelPending, nCancel, regionPc,
                   pendingRegionOcr, store, now, selectorVars, relayVars,
                   triggerVars, utilVars>>

\* captureCurrentTabAsFile of request r after its await of
\* scaleImageIfNeeded: the status of a scaled image, then the file is
\* returned and handleScreenshotClick calls runOcrOnFile with it.
CaptureReturnsFile(r) ==
    /\ req[r].pc = "capture"
    /\ scaleResult.pc = "resolved"
    /\ RunOcrOnFile(r, IF scaleResult.scaled
                       THEN UpdateStatus(ctl, St("Scaling large image..."))
                       ELSE ctl)
    /\ UNCHANGED <<cancelPending, nCancel, regionPc, pendingRegionOcr, store,
                   now, selectorVars, relayVars, triggerVars, utilVars>>

UtilsNext ==
    \/ ScaleImageIfNeeded
    \/ NextReq = 1 /\ HandleScreenshotClick
    \/ \E r \in ReqIds : CaptureReturnsFile(r)
    \/ CountWordsReturns
    \/ ShowRecognizedStatus

\* The arguments the utility functions are called with.
UtilsInit ==
    /\ ContextsInit
    /\ regionPc = "idle"
    /\ img \in Images
    /\ scaleResult = NoScaleResult
    /\ countArg \in TextArgs
    /\ countResult = NoCount

\* The utility functions applied to their arguments.
UtilsSpec == UtilsInit /\ [][UtilsNext]_vars

----------------------------------------------------------------------------
\* Properties.

\* The request is inside runOcrOnFile (between setProcessing(true) and its end).
Running(r) == req[r].pc \in {"awaitWorker", "recognize", "clipboard"}

\* Request r ends in this step.
Ends(r) == req[r].pc \notin {"none", "done"} /\ req'[r].pc = "done"

\* worker.recognize is called for request r in this step.
RecognizeCalled(r) == req[r].pc # "recognize" /\ req'[r].pc = "recognize"

\* The engine exists and terminate() has not been called on it.
Live(w) == worker[w].created /\ ~worker[w].terminateCalled

\* C1: when cancelOcr is invoked while an engine is initializing (createWorker
\* pending), that engine is terminated once it is ready and no recognize call
\* is ever outstanding on it, whatever the user does in between.
C1_CancelDuringInitTearsDown ==
    \A w \in WorkerIds :
        worker[w].cancelledIn = "init" =>
            /\ worker[w].created => worker[w].terminateCalled
            /\ \A r \in ReqIds : ~(req[r].pc = "recognize" /\ req[r].promise = w)

\* C2: when cancelOcr is invoked while a recognize call is outstanding,
\* terminate() is called on the engine of that call, and when the cancelled
\* request ends the status it shows does not start with "Error".
C2_CancelledRecognitionNoError ==
    [][\A r \in ReqIds :
          /\ (nCancel' # nCancel /\ req[r].pc = "recognize")
                => worker'[req[r].promise].terminateCalled
          /\ (req[r].pc = "recognize" /\ req[r].recognizeCancelled /\ Ends(r))
                => ctl'.statusText.head # "Error: "]_vars

\* C3: recognize is never called on an engine on which terminate() has
\* already been called.
C3_TerminatedNeverReused ==
    [][\A r \in ReqIds :
          RecognizeCalled(r) => ~worker[req'[r].promise].terminateCalled]_vars

\* C4: at most one recognize call is outstanding at any time (calls on
\* engines that were terminated meanwhile are not counted).
C4_OneRecognizeOutstanding ==
    Cardinality({r \in ReqIds : /\ req[r].pc = "recognize"
                                /\ ~worker[req[r].promise].terminateCalled}) <= 1

\* C5: at most one live engine (created, terminate() not called) exists.
C5_OneLiveEngine == Cardinality({w \in WorkerIds : Live(w)}) <= 1

\* C6: once cancelOcr has been invoked and the initialization of an engine
\* that was initializing or live at that moment has settled, terminate() has
\* been called on that engine if it exists.
C6_CancelTearsDownAnyPhase ==
    \A w \in WorkerIds :
        (worker[w].cancelledIn # "" /\ worker[w].pc # "createWorker"
         /\ worker[w].created) => worker[w].terminateCalled

\* C7: the step in which cancelOcr is invoked already ends in the idle UI
\* state with status "Cancelled", without waiting for terminate() to settle.
C7_CancelIdleSynchronously ==
    [][nCancel' # nCancel => Idle(ctl') /\ ctl'.statusText = St("Cancelled")]_vars

\* C8: every request that ends leaves the idle UI state (isProcessing false,
\* capture and region buttons enabled, cancel hidden), and the controller is
\* never outside the idle UI state while no request is inside runOcrOnFile.
C8_EndedRequestLeavesIdle ==
    /\ [][\A r \in ReqIds : Ends(r) => Idle(ctl')]_vars
    /\ []((\A r \in ReqIds : ~Running(r)) => Idle(ctl))

\* C8 witness: a request has ended with an error status after a cancelOcr, a
\* second one has ended too, and the UI is idle.
C8_Witness ==
    /\ \A r \in ReqIds : req[r].pc = "done"
    /\ nCancel > 0
    /\ ctl.statusText.head = "Error: "
    /\ Idle(ctl)

\* C9: a request triggered after an engine initialization has failed does not
\* end, when it reaches getWorker, with the failure of that earlier
\* initialization.
C9_UsableAfterInitFailure ==
    [][\A r \in ReqIds :
          (req[r].afterInitFailure /\ req[r].pc \in {"capture", "crop"} /\ Ends(r))
             => ctl'.statusText.msg \notin EngineErrors]_vars

C23_CaptureFailureStatus ==
    [][\A r \in ReqIds, m \in CaptureErrors :
          (req[r].pc = "capture" /\ CaptureRejects(r, m))
          => /\ ctl'.statusText = ErrorStatus(m)
             /\ ~ctl'.screenshotBtnDisabled
             /\ ~ctl'.regionBtnDisabled]_vars

\* C24: a recognition that resolves with non-blank text attempts one
\* clipboard write, of the whole text, and whatever the outcome of the write
\* the request ends with the status "Done - <words> words, <chars> chars",
\* followed by " (copied to clipboard)" exactly when the write succeeded; a
\* recognition that resolves with empty or whitespace-only text attempts no
\* write and ends with "Done - no text found".
C24_ClipboardBestEffort ==
    [][\A r \in ReqIds : req'[r].pc # req[r].pc =>
          /\ req[r].pc # "done"
          /\ req'[r].pc = "clipboard" => req[r].pc = "recognize"
          /\ req[r].pc = "recognize" => \A text \in Texts :
                \/ IF \E i \in 1..Len(text) : text[i] # " "
                   THEN /\ req'[r].pc = "clipboard"
                        /\ req'[r].text = text
                   ELSE /\ req'[r].pc = "done"
                        /\ ctl'.statusText = St("Done - no text found")
                \/ ~(ctl'.outputValue = text /\ RecognizeResolvesWith(r, text))
          /\ req[r].pc = "clipboard" =>
                /\ req'[r].pc = "done"
                /\ \A copied \in BOOLEAN :
                      \/ /\ ctl'.statusText.head = "Done - "
                         /\ ctl'.statusText.words >= 1
                         /\ ctl'.statusText.chars = Len(req[r].text)
                         /\ ctl'.statusText.tail =
                               IF copied THEN " (copied to clipboard)"
                                         ELSE ""
                      \/ ~CopyToClipboardReturns(r, copied)]_vars

\* C24 witness: the text "a b" was recognized, the clipboard write failed,
\* and the request has ended with "Done - 2 words, 3 chars".
C24_Witness ==
    /\ \E r \in ReqIds : req[r].pc = "done"
    /\ ctl.outputValue = <<"a", " ", "b">>
    /\ ctl.statusText = DoneStatus(2, 3, FALSE)
    /\ Idle(ctl)

\* C29: when the get of checkRegionMode resolves without a handoff, the
\* controller returns to idle with its status, its requests and its engine as
\* they were; and a controller in which checkRegionMode is not running never
\* reads the slot and leaves it as it is.
C29_NoHandoffIsIdle ==
    /\ [][(regionPc = "get" /\ ~store.present /\ StorageGetResolves)
             => /\ regionPc' = "idle"
                /\ ctl' = ctl
                /\ req' = req
                /\ worker' = worker
                /\ pendingRegionOcr' = pendingRegionOcr
                /\ store' = store]_vars
    /\ [][regionPc = "idle"
             => /\ regionPc' = "idle"
                /\ pendingRegionOcr' = pendingRegionOcr
                /\ store' = store]_vars

\* C29 witness: a popup opened in region mode waited for the store, found
\* no handoff and is idle with the status it started with, no request and no
\* engine.
C29_Witness ==
    /\ regionPc = "idle"
    /\ now > StartTime
    /\ ~store.present
    /\ pendingRegionOcr = NoHandoff
    /\ ctl.statusText = St("Ready")
    /\ \A r \in ReqIds : req[r] = NoRequest
    /\ \A w \in WorkerIds : worker[w] = NoWorker

\* C31: createWorker is called only in a step in which a request enters
\* runOcrOnFile while no worker promise is cached; a cached worker promise is
\* dropped only by cancelOcr; so as long as cancelOcr was never invoked at
\* most one createWorker call was made, and exactly one once a request has
\* passed getWorker.
C31_LazyEngineReuse ==
    /\ [][\A w \in WorkerIds :
             (worker[w].pc = "none" /\ worker'[w].pc # "none")
             => /\ ctl.workerPromise = Null
                /\ ctl'.workerPromise = w
                /\ \E r \in ReqIds :
                      /\ req[r].pc \in {"capture", "crop"}
                      /\ req'[r].pc \notin {"capture", "crop"}]_vars
    /\ [][(ctl.workerPromise # Null /\ ctl'.workerPromise # ctl.workerPromise)
             => /\ ctl'.workerPromise = Null
                /\ nCancel' > nCancel \/ cancelPending' < cancelPending]_vars
    /\ [](nCancel = 0 =>
             /\ Cardinality({w \in WorkerIds : worker[w].pc # "none"}) <= 1
             /\ (\E r \in ReqIds :
                    req[r].pc \in {"awaitWorker", "recognize", "clipboard"})
                => worker[1].pc # "none")

\* C31 witness: without any cancel, the first request has recognized a text
\* and the second one recognizes on the engine the first one created; no
\* second createWorker call was made.
C31_Witness ==
    /\ nCancel = 0
    /\ req[1].pc = "done"
    /\ ctl.outputValue = <<"a", " ", "b">>
    /\ req[2].pc = "recognize"
    /\ req[2].promise = 1
    /\ worker[1].pc = "resolved"
    /\ worker[2].pc = "none"

\* C32: when cropImageToRegion rejects with a message, the region request
\* ends in that step with the status "Error: <message>", no createWorker and
\* no recognize call is made for it, and the controller is idle.
C32_CropFailureStatus ==
    [][\A r \in ReqIds, m \in CropErrors :
          (req[r].pc = "crop" /\ req'[r] # req[r] /\ CropRejects(r, m))
          => /\ ctl'.statusText = ErrorStatus(m)
             /\ Idle(ctl')
             /\ req'[r].pc = "done"
             /\ worker' = worker]_vars

\* C38: when the recognize call of a request settles after cancelOcr was
\* invoked while it was outstanding, the step writes no text to the output,
\* starts no clipboard write and shows no "Done" status.
C38_CancelledResultNotSurfaced ==
    [][\A r \in ReqIds :
          (/\ req[r].pc = "recognize"
           /\ req[r].recognizeCancelled
           /\ req'[r].pc # "recognize")
          => /\ ctl'.outputValue = ctl.outputValue
             /\ req'[r].pc # "clipboard"
             /\ ctl'.statusText.head \notin {"Done - ", "Done - no text found"}]_vars

\* C39: while a request is inside runOcrOnFile and cancelOcr has not been
\* invoked since it entered, isProcessing is true.
C39_ProcessingFlagHeld ==
    \A r \in ReqIds : (Running(r) /\ ~req[r].cancelled) => ctl.isProcessing

----------------------------------------------------------------------------
\* Properties of the relay and the handoff slot (RelaySpec).

\* Window i has started to crop (and then recognize) the screenshot h.
Consumes(i, h) == popup[i].pc = "crop" /\ popup[i].read.dataUrl = h

\* Nothing is pending: no relay call and no checkRegionMode is suspended.
Quiescent ==
    /\ \A k \in RelayIds : relay[k].pc \notin {"capture", "set"}
    /\ \A i \in RelayIds : popup[i].pc \notin {"get", "remove"}

\* C11: no screenshot written by the relay is cropped and recognized by more
\* than one window opened in region mode.
C11_ConsumedAtMostOnce ==
    \A h \in RelayIds : Cardinality({i \in RelayIds : Consumes(i, h)}) <= 1

\* C12: when a window that has read a handoff starts cropping it, or shows
\* the expired status, the slot no longer holds the screenshot it read, and
\* never holds it again.
C12_SlotDeletedBeforeProcessing ==
    \A i \in RelayIds :
        popup[i].pc \in {"crop", "expired"} =>
            ~(store.present /\ store.dataUrl = popup[i].read.dataUrl)

\* C12 witness: one window is cropping a fresh handoff, another one has
\* discarded an expired handoff, and the slot is empty.
C12_Witness ==
    /\ popup[1].pc = "crop"
    /\ popup[2].pc = "expired"
    /\ popup[2].read.dataUrl = 2
    /\ ~store.present

\* C13: once nothing is pending any more, a handoff that no window has read
\* is not in the slot more than 60,000 ms after it was written.
C13_UnreadHandoffExpires ==
    (/\ store.present
     /\ Quiescent
     /\ \A i \in RelayIds : popup[i].read.dataUrl # store.dataUrl)
    => now - store.timestamp <= FreshnessMs

\* C14: the slot holds the record of the write that completed last, whatever
\* it held before, and a window that reads the slot gets that record and no
\* earlier one.
C14_LastWriteWins ==
    /\ [](store.present => store.dataUrl = lastWrite)
    /\ [][\A k \in RelayIds :
             (relay[k].pc = "set" /\ relay'[k].pc = "done")
             => store' = PendingRegionOcr(k, relay[k].rect,
                                          relay[k].timestamp)]_vars
    /\ [][\A i \in RelayIds :
             (popup[i].pc = "get" /\ popup'[i].pc = "remove")
             => popup'[i].read.dataUrl = lastWrite]_vars

\* C14 witness: two selections were relayed concurrently; the write of the
\* first call completed after the write of the second one and replaced it,
\* and both windows are about to read the slot.
C14_Witness ==
    /\ relay[1].pc = "done"
    /\ relay[2].pc = "done"
    /\ store.present
    /\ store.dataUrl = 1
    /\ popup[1].pc = "get"
    /\ popup[2].pc = "get"

\* C15: a relay call whose capture failed has logged the failure, has written
\* nothing to the slot and has opened no window, and the step in which it
\* fails leaves the slot and the windows as they were.
C15_CaptureFailureWritesNothing ==
    /\ [](\A k \in RelayIds :
             relay[k].failedAt = "capture" =>
                /\ relay[k].pc = "logged"
                /\ popup[k].pc = "none"
                /\ lastWrite # k
                /\ ~(store.present /\ store.dataUrl = k))
    /\ [][\A k \in RelayIds :
             (relay[k].pc = "capture" /\ relay'[k].failedAt = "capture")
             => store' = store /\ popup' = popup]_vars

\* C15 witness: the capture of the second call failed while the slot held the
\* handoff of the first one, which is still there.
C15_Witness ==
    /\ relay[2].failedAt = "capture"
    /\ relay[2].pc = "logged"
    /\ store.present
    /\ store.dataUrl = 1
    /\ popup[2].pc = "none"

\* C28: a message whose type is not "regionSelected" starts no relay call:
\* the step that receives it leaves the slot, the windows and the record of
\* the last write as they were, and no capture, write or window ever follows
\* from it.
C28_OnlyRegionSelected ==
    /\ [][\A message \in Messages :
             (message.type # "regionSelected" /\ OnMessage(message))
             => /\ relay'[NextRelay].pc = "ignored"
                /\ store' = store
                /\ popup' = popup
                /\ lastWrite' = lastWrite]_vars
    /\ [](\A k \in RelayIds :
             relay[k].pc = "ignored" =>
                /\ popup[k].pc = "none"
                /\ lastWrite # k
                /\ ~(store.present /\ store.dataUrl = k))
    /\ [][\A k \in RelayIds :
             relay[k].pc = "ignored" => relay'[k] = relay[k]]_vars

\* C28 witness: a message of another type was ignored, and the selection
\* that came after it was relayed and its window opened.
C28_Witness ==
    /\ relay[1].pc = "ignored"
    /\ relay[2].pc = "done"
    /\ store.present
    /\ store.dataUrl = 2
    /\ popup[1].pc = "none"
    /\ popup[2].pc = "get"

\* C30: a relay call captures, then writes, then opens its window: the call
\* keeps the rect of its message, takes the timestamp when it issues the
\* write, and its window is opened only in the step in which its write
\* completes, with the slot holding the capture of this call, the rect of
\* its message and that timestamp.
C30_RelayOrder ==
    /\ [][\A message \in Messages :
             (message.type = "regionSelected" /\ OnMessage(message))
             => /\ relay'[NextRelay].pc = "capture"
                /\ relay'[NextRelay].rect = message.rect]_vars
    /\ [][\A k \in RelayIds :
             /\ relay'[k].pc # relay[k].pc =>
                   <<relay[k].pc, relay'[k].pc>> \in
                      {<<"none", "capture">>, <<"none", "ignored">>,
                       <<"capture", "set">>, <<"capture", "logged">>,
                       <<"set", "done">>, <<"set", "logged">>}
             /\ relay[k].pc # "none" => relay'[k].rect = relay[k].rect
             /\ (relay[k].pc = "capture" /\ relay'[k].pc = "set")
                   => relay'[k].timestamp = now
             /\ relay[k].pc = "set" => relay'[k].timestamp = relay[k].timestamp
             /\ (popup[k].pc = "none" /\ popup'[k].pc # "none")
                   => /\ relay[k].pc = "set"
                      /\ relay'[k].pc = "done"
                      /\ lastWrite' = k
                      /\ store'.present
                      /\ store'.dataUrl = k
                      /\ store'.rect = relay[k].rect
                      /\ store'.timestamp = relay[k].timestamp]_vars
    /\ [](\A k \in RelayIds : popup[k].pc # "none" => relay[k].pc = "done")

\* C30 witness: time passed while the capture of a selection was pending;
\* the call has written the rect of its message with the later timestamp and
\* its window is open.
C30_Witness ==
    /\ relay[1].pc = "done"
    /\ relay[1].rect = Rect(4, 0, 121, 125)
    /\ store = PendingRegionOcr(1, Rect(4, 0, 121, 125), StartTime + ElapseMs)
    /\ popup[1].pc = "get"

----------------------------------------------------------------------------
\* Properties of the region selector (SelectorSpec).

\* The injection has reached a terminal state of the selector.
Terminal(a) == sel[a].state \in {"Committed", "Cancelled"}

\* The injection is active: Idle or Dragging.
Active(a) == sel[a].state \in {"Idle", "Dragging"}

\* C16: an injection while the single-instance flag is set adds no element
\* and registers no listener and leaves the active selector as it is, so at
\* most one overlay is in the page, and exactly one while the flag is set.
C16_SingleInstance ==
    /\ [](Cardinality({a \in SelectorIds :
                          "selectionOverlay" \in sel[a].attached}) <= 1)
    /\ [](selectorActive =>
             \E a \in SelectorIds : sel[a].attached = Elements)
    /\ [](\A a \in SelectorIds :
             sel[a].state = "NoOp" => sel[a].attached = {} /\ sel[a].handlers = {})
    /\ [][(injections' # injections /\ selectorActive) =>
             /\ selectorActive'
             /\ \A a \in SelectorIds : Active(a) => sel'[a] = sel[a]]_vars

\* C16 witness: the content script was injected again during a drag.
C16_Witness ==
    /\ selectorActive
    /\ sel[1].state = "Dragging"
    /\ sel[2].state = "NoOp"

\* C17: a mouseup that ends a drag whose normalized selection is narrower or
\* lower than 10 logical pixels cancels the selector: no message is sent, the
\* elements are removed and the flag is cleared.
C17_SmallSelectionCancelled ==
    [][\A a \in SelectorIds, x \in XCoords, y \in YCoords :
          (/\ sel[a].isSelecting
           /\ \/ Abs(x - sel[a].selectionStartX) < 10
              \/ Abs(y - sel[a].selectionStartY) < 10
           /\ HandleMouseUp(a, x, y))
          => /\ sel'[a].state = "Cancelled"
             /\ sel'[a].attached = {}
             /\ sel'[a].sent = sel[a].sent
             /\ outbox' = outbox
             /\ ~selectorActive']_vars

\* C17 witness: a drag 3 pixels wide and 100 high was released and cancelled.
C17_Witness ==
    /\ sel[1].state = "Cancelled"
    /\ sel[1].escapedIn = ""
    /\ sel[1].selectionStartX = 0
    /\ sel[1].selectionStartY = 0
    /\ ~sel[1].isSelecting
    /\ sel[1].sent = 0
    /\ outbox = NoMessage
    /\ ~selectorActive

\* C18: Escape while Idle or Dragging removes every element and clears the
\* flag, and the injection that saw it never sends a message, whatever events
\* follow.
C18_EscapeCancels ==
    /\ [][\A a \in SelectorIds :
             (Active(a) /\ HandleKeyDown(a, "Escape"))
             => /\ sel'[a].state = "Cancelled"
                /\ sel'[a].escapedIn = sel[a].state
                /\ sel'[a].attached = {}
                /\ ~selectorActive']_vars
    /\ [](\A a \in SelectorIds :
             sel[a].escapedIn # "" => sel[a].attached = {} /\ sel[a].sent = 0)
    /\ [](\A a \in SelectorIds :
             outbox.from = a => sel[a].escapedIn = "")

\* C18 witness: Escape was pressed during a drag (isSelecting is still set)
\* and a later injection is active.
C18_Witness ==
    /\ sel[1].escapedIn = "Dragging"
    /\ sel[1].isSelecting
    /\ sel[1].sent = 0
    /\ sel[2].state = "Dragging"

C20_DeviceScaledRect ==
    outbox.type = "regionSelected" =>
        LET ratio == IF outbox.devicePixelRatio[1] = 0 THEN <<1, 1>>
                     ELSE outbox.devicePixelRatio
            Nearest(n, v) == 2 * Abs(n * ratio[2] - v * ratio[1]) <= ratio[2]
        IN  /\ Nearest(outbox.rect.x, outbox.selectedRegion.x)
            /\ Nearest(outbox.rect.y, outbox.selectedRegion.y)
            /\ Nearest(outbox.rect.width, outbox.selectedRegion.width)
            /\ Nearest(outbox.rect.height, outbox.selectedRegion.height)
            /\ (outbox.selectedRegion = Rect(0, 0, 100, 100)
                /\ outbox.devicePixelRatio = <<2, 1>>)
               => outbox.rect = Rect(0, 0, 200, 200)

\* C20 witness: a selection at x = 3, 97 wide, was sent at ratio 1.25 as
\* x = 4 (3.75 rounded up) and width 121 (121.25 rounded down).
C20_Witness ==
    /\ outbox.type = "regionSelected"
    /\ outbox.devicePixelRatio = <<5, 4>>
    /\ outbox.selectedRegion = Rect(3, 0, 97, 100)
    /\ outbox.rect = Rect(4, 0, 121, 125)

\* C21: every rect the selector sends has width > 0 and height > 0 and lies
\* within the screenshot of the viewport at device pixel resolution:
\* 0 <= x, 0 <= y, x + width <= imageWidth and y + height <= imageHeight.
C21_RectWithinImage ==
    outbox.type = "regionSelected" =>
        LET image == CapturedImage(DevicePixelRatio(outbox.devicePixelRatio))
            rect == outbox.rect
        IN  /\ rect.width > 0
            /\ rect.height > 0
            /\ 0 <= rect.x
            /\ 0 <= rect.y
            /\ rect.x + rect.width <= image.width
            /\ rect.y + rect.height <= image.height

\* C34: the step in which an injection sends its message leaves none of its
\* elements in the page and clears the single-instance flag, and whenever the
\* message of an injection has been sent its elements are out of the page.
C34_TeardownBeforeEmit ==
    /\ [][\A a \in SelectorIds :
             sel'[a].sent > sel[a].sent
             => /\ sel[a].attached = Elements
                /\ sel'[a].attached = {}
                /\ sel'[a].handlers \cap DocumentHandlers = {}
                /\ ~selectorActive'
                /\ outbox'.type = "regionSelected"
                /\ outbox'.from = a]_vars
    /\ [](\A a \in SelectorIds :
             (sel[a].sent > 0 \/ outbox.from = a) => sel[a].attached = {})

\* C34 witness: the only injection has sent its selection and none of its
\* elements is in the page.
C34_Witness ==
    /\ injections = 1
    /\ sel[1].state = "Committed"
    /\ sel[1].sent = 1
    /\ sel[1].attached = {}
    /\ outbox.type = "regionSelected"
    /\ outbox.from = 1

\* C35: the selection of every message sent, after the clamp to the
\* viewport, is at least 10 logical pixels wide and 10 high.
C35_MinimumAfterClamp ==
    outbox.type = "regionSelected" =>
        /\ outbox.selectedRegion.width >= 10
        /\ outbox.selectedRegion.height >= 10

\* C36: the clamped selection of a message lies within the viewport and
\* within the rectangle dragged from the anchor to the release point.
C36_ClampWithinDrag ==
    [][\A a \in SelectorIds, x \in XCoords, y \in YCoords :
          (sel'[a].sent > sel[a].sent /\ HandleMouseUp(a, x, y))
          => LET r == outbox'.selectedRegion
                 startX == sel[a].selectionStartX
                 startY == sel[a].selectionStartY
             IN  /\ r.x >= 0
                 /\ r.y >= 0
                 /\ r.x + r.width <= Viewport.width
                 /\ r.y + r.height <= Viewport.height
                 /\ r.x >= Min(startX, x)
                 /\ r.y >= Min(startY, y)
                 /\ r.x + r.width <= Max(startX, x)
                 /\ r.y + r.height <= Max(startY, y)]_vars

----------------------------------------------------------------------------
\* Properties of the region trigger (TriggerSpec).

\* The tabs of the refusal rule: no tab, no URL, or a browser-internal URL.
RefusedTab(tab) ==
    \/ ~tab.present
    \/ tab.url = <<>>
    \/ \E prefix \in {ChromeScheme, ExtensionScheme, AboutScheme, EdgeScheme,
                       BraveScheme} :
            StartsWith(tab.url, prefix)

\* C22: when tabs.query gives no tab, a tab without URL, or a tab whose URL
\* starts with chrome://, chrome-extension://, about:, edge:// or brave://,
\* that trigger never calls scripting.executeScript and never closes the
\* popup, and the step that sees the tab shows an "Error: " status.
C22_RestrictedTabRefused ==
    /\ [](\A c \in ClickIds :
             (regionClick[c].pc \in {"executeScript", "done"}
              /\ RefusedTab(regionClick[c].tab))
             => regionClick[c].pc = "done" /\ ~regionClick[c].executeScript)
    /\ [][\A c \in ClickIds :
             (regionClick[c].pc = "query" /\ regionClick'[c].pc # "query"
              /\ RefusedTab(regionClick'[c].tab))
             => /\ ~windowClosed'
                /\ ctl'.statusText.head = "Error: "]_vars
    /\ [][windowClosed' # windowClosed =>
             \E c \in ClickIds :
                /\ regionClick[c].pc = "executeScript"
                /\ regionClick'[c].pc = "done"
                /\ ~RefusedTab(regionClick[c].tab)]_vars

\* C22 witness: the region trigger found the active tab on a brave:// page
\* and refused it; the popup is still open.
C22_Witness ==
    /\ regionClick[1].pc = "done"
    /\ regionClick[1].tab = [present |-> TRUE, url |-> BraveScheme \o <<"x">>]
    /\ ~regionClick[1].executeScript
    /\ ctl.statusText = ErrorStatus("Cannot select region on browser pages")
    /\ ~windowClosed

----------------------------------------------------------------------------
\* Properties of the utility functions (UtilsSpec).

\* C25: an image with width * height <= 5,000,000, width <= 3000 and
\* height <= 3000 is returned untouched (scale 1, scaled = false, the same
\* data URL, nothing rendered), and for an image over any of the three limits
\* a scaled payload is produced (scaled = true).
C25_ScaledIffOverLimits ==
    (scaleResult.pc = "resolved" /\ img.loads) =>
        IF /\ img.width * img.height <= 5000000
           /\ img.width <= 3000
           /\ img.height <= 3000
        THEN /\ ~scaleResult.scaled
             /\ scaleResult.sameDataUrl
             /\ ~scaleResult.rendered
             /\ scaleResult.scale = "one"
        ELSE scaleResult.scaled

\* a <= b for two of the scale factors 1 ("one"), sqrt(maxPixels / (width *
\* height)) ("sqrt"), maxDimension / width and maxDimension / height, with
\* maxPixels = 5 * 10^6 and maxDimension^2 = 9 * 10^6:
\* sqrt(maxPixels / (width * height)) <= maxDimension / width exactly when
\* 5 * width <= 9 * height.
ScaleLeq(a, b, width, height) ==
    CASE a = b -> TRUE
      [] a = "sqrt" /\ b = "one" -> width * height >= 5000000
      [] a = "one" /\ b = "sqrt" -> width * height <= 5000000
      [] a = "width" /\ b = "one" -> width >= 3000
      [] a = "one" /\ b = "width" -> width <= 3000
      [] a = "height" /\ b = "one" -> height >= 3000
      [] a = "one" /\ b = "height" -> height <= 3000
      [] a = "sqrt" /\ b = "width" -> 5 * width <= 9 * height
      [] a = "width" /\ b = "sqrt" -> 5 * width >= 9 * height
      [] a = "sqrt" /\ b = "height" -> 5 * height <= 9 * width
      [] a = "height" /\ b = "sqrt" -> 5 * height >= 9 * width
      [] a = "width" /\ b = "height" -> width >= height
      [] OTHER -> height >= width

\* C26: for an image over a limit the scale factor left by the three
\* sequential clamps is the minimum of 1, sqrt(maxPixels / (width * height)),
\* maxDimension / width and maxDimension / height, and the scaled width and
\* height are both <= 3000 and their product is <= 5,000,000.
C26_ScaleIsMinimum ==
    (/\ scaleResult.pc = "resolved"
     /\ img.loads
     /\ ~(/\ img.width * img.height <= 5000000
          /\ img.width <= 3000
          /\ img.height <= 3000))
    => /\ \A u \in {"one", "sqrt", "width", "height"} :
             ScaleLeq(scaleResult.scale, u, img.width, img.height)
       /\ scaleResult.width <= 3000
       /\ scaleResult.height <= 3000
       /\ scaleResult.width * scaleResult.height <= 5000000

\* C26 witness: a 6000 x 3000 image exceeds all three limits; the width
\* clamp is the tightest and the image is rendered at 3000 x 1500.
C26_Witness ==
    /\ img = [width |-> 6000, height |-> 3000, loads |-> TRUE, context |-> TRUE]
    /\ scaleResult.pc = "resolved"
    /\ scaleResult.scaled
    /\ scaleResult.scale = "width"
    /\ scaleResult.width = 3000
    /\ scaleResult.height = 1500

\* C27: countWords(text) is the number of whitespace-delimited tokens of the
\* text (0 for null, undefined, empty and whitespace-only text), and the Done
\* status shown for a recognized text carries that number as its word count
\* and the length of the text as its character count.
C27_CountWords ==
    LET chars == countArg.chars
        Tokens == {i \in 1..Len(chars) :
                      /\ chars[i] \notin {" ", "\n"}
                      /\ (i = 1 \/ chars[i - 1] \in {" ", "\n"})}
    IN  /\ countResult.pc = "returned" =>
              countResult.value = IF countArg.type = "string"
                                  THEN Cardinality(Tokens) ELSE 0
        /\ ctl.statusText.head = "Done - " =>
              /\ ctl.statusText.words = Cardinality(Tokens)
              /\ ctl.statusText.chars = Len(chars)
              /\ countResult.pc = "returned" =>
                    ctl.statusText.words = countResult.value

\* C27 witness: the text "a", line break, "a" has two words and three
\* characters, in countWords and in the Done status.
C27_Witness ==
    /\ countArg = [type |-> "string", chars |-> <<"a", "\n", "a">>]
    /\ countResult = [pc |-> "returned", value |-> 2]
    /\ ctl.statusText = DoneStatus(2, 3, TRUE)

\* C33: when an image over a limit cannot be drawn because the canvas has no
\* 2d context, the capture does not hand a file to runOcrOnFile: the request
\* ends with an "Error: " status and no engine is asked for.
C33_RenderErrorPropagates ==
    [][\A r \in ReqIds :
          (/\ req[r].pc = "capture"
           /\ req'[r] # req[r]
           /\ img.loads
           /\ ~(/\ img.width * img.height <= 5000000
                /\ img.width <= 3000
                /\ img.height <= 3000)
           /\ ~img.context)
          => /\ ctl'.statusText.head = "Error: "
             /\ req'[r].pc = "done"
             /\ worker' = worker]_vars

\* C37: an image of at least 1 x 1 pixels that is over a limit is scaled to
\* a width and a height of at least 1.
C37_ScaledDimensionsPositive ==
    (/\ scaleResult.pc = "resolved"
     /\ img.loads
     /\ img.width >= 1
     /\ img.height >= 1
     /\ ~(/\ img.width * img.height <= 5000000
          /\ img.width <= 3000
          /\ img.height <= 3000))
    => /\ scaleResult.width >= 1
       /\ scaleResult.height >= 1

====
